---- MODULE Spec2Model ----
(***************************************************************************)
(* Model of advanced-vector/vector.h: RawMemory<T> (an owner of one raw    *)
(* block) and Vector<T> (a RawMemory plus a count of live elements).       *)
(*                                                                         *)
(* The heap is explicit: a RawMemory holds a block id, the heap maps block *)
(* ids to their slots, and a slot is either raw or holds a value.  Every   *)
(* public member function is one action.  An action's inputs are its       *)
(* arguments, the element operation that throws (f, 0 = none) and whether  *)
(* operator new fails (oom).                                               *)
(***************************************************************************)
EXTENDS Integers, Sequences, FiniteSets

VARIABLES T, vec, heap, last

vars == <<T, vec, heap, last>>

\* ---------------------------------------------------------------- bounds
\* Largest capacity a call may ask for in Spec (two vectors).
PairCap == 2
\* Largest capacity in SpecSingle (one vector).
MaxCap == 4
\* Largest capacity in SpecAppend (one vector, appends only).
AppendCap == 8
\* Number of block ids the allocator can hand out.
MaxBlocks == 3

\* ------------------------------------------------------------- constants
Null == 0
Raw == -1
Default == 0

Vecs == {"a", "b"}
Values == {1, 2}
PairValues == {1}
Blocks == 1..MaxBlocks

\* The element types the template is instantiated with.  nothrowMove and
\* copyable are the two traits the relocation policy reads; throws says
\* whether the operations that are not noexcept can actually throw; hollow
\* says whether a move leaves its source in the moved-from (default) state.
ElemTypes ==
    { [name |-> "int", nothrowMove |-> TRUE,  copyable |-> TRUE,  throws |-> FALSE, hollow |-> FALSE],
      [name |-> "str", nothrowMove |-> TRUE,  copyable |-> TRUE,  throws |-> TRUE,  hollow |-> TRUE],
      [name |-> "obj", nothrowMove |-> FALSE, copyable |-> TRUE,  throws |-> TRUE,  hollow |-> TRUE],
      [name |-> "uniq", nothrowMove |-> FALSE, copyable |-> FALSE, throws |-> TRUE, hollow |-> TRUE] }

\* if constexpr (is_nothrow_move_constructible_v<T> || !is_copy_constructible_v<T>)
RelocateByMove == T.nothrowMove \/ ~T.copyable

\* Constructors from arguments, the copy operations and value-initialisation
\* are not noexcept; the move operations are noexcept iff nothrowMove.
CtorThrows == T.throws
MoveThrows == T.throws /\ ~T.nothrowMove
RelocThrows == IF RelocateByMove THEN MoveThrows ELSE CtorThrows

\* ------------------------------------------------- throw-point bookkeeping
\* A call is given f: the f-th element operation that can throw does throw.
\* Hit: which of the next n operations throws (0 = none of them).
Hit(f, n, can) == IF can /\ f >= 1 /\ f <= n THEN f ELSE 0
\* Rest: f as seen by the operations after those n.
Rest(f, n, can) == IF ~can \/ f = 0 THEN f ELSE IF f > n THEN f - n ELSE 0

\* ------------------------------------------------------------------ heap
\* A memory state m is [h, ub, why, leaked]: the heap, whether undefined
\* behaviour has happened (a destructor run on raw memory, a read of raw
\* memory, a block released twice), of which kinds, and the number of live
\* elements lost (their slot overwritten by a construction, or their block
\* released).
Mem(h) == [h |-> h, ub |-> FALSE, why |-> {}, leaked |-> 0]

\* Undefined behaviour of the given kind has happened: "free" (a block released
\* twice), "destroy" (a destructor run where no element lives), "access" (a
\* read of or an assignment to a slot where no element lives).
Undefined(m, kind) == [m EXCEPT !.ub = TRUE, !.why = @ \cup {kind}]

Allocated(h, b) == b # Null /\ h[b] # <<>>

FreeIds(h) == {b \in Blocks : h[b] = <<>>}

MinOf(S) == CHOOSE x \in S : \A y \in S : x <= y

\* RawMemory::Allocate(n): nullptr for n = 0, else a fresh block of n raw slots.
AllocId(h, n) == IF n = 0 THEN Null ELSE MinOf(FreeIds(h))

Allocate(m, n) ==
    IF n = 0 THEN m
    ELSE [m EXCEPT !.h[AllocId(m.h, n)] = [i \in 1..n |-> Raw]]

\* operator new throws when asked to (oom) or when no block is left.
AllocFails(h, n, oom) == n # 0 /\ (oom \/ FreeIds(h) = {})

LiveIn(s) == Cardinality({i \in DOMAIN s : s[i] # Raw})

\* Mutant of Deallocate: the block is never released.
DeallocateNever(m, b) == m

\* RawMemory::Deallocate(buf): operator delete; nullptr is a no-op.
Deallocate(m, b) ==
    IF b = Null THEN m
    ELSE IF m.h[b] = <<>> THEN Undefined(m, "free")
    ELSE [h |-> [m.h EXCEPT ![b] = <<>>],
          ub |-> m.ub, why |-> m.why,
          leaked |-> m.leaked + LiveIn(m.h[b])]

\* Slots lo .. lo+n-1 (0-based, as pointer offsets) lie inside block b.
InBlock(h, b, lo, n) == Allocated(h, b) /\ lo >= 0 /\ lo + n <= Len(h[b])

\* std::destroy_n(b + lo, n) / std::destroy_at
DestroyN(m, b, lo, n) ==
    IF n <= 0 THEN m
    ELSE IF ~InBlock(m.h, b, lo, n) THEN Undefined(m, "destroy")
    ELSE [h |-> [m.h EXCEPT ![b] =
                    [i \in DOMAIN @ |-> IF i - 1 >= lo /\ i - 1 < lo + n THEN Raw ELSE @[i]]],
          ub |-> m.ub \/ \E i \in lo..(lo + n - 1) : m.h[b][i + 1] = Raw,
          why |-> IF \E i \in lo..(lo + n - 1) : m.h[b][i + 1] = Raw
                  THEN m.why \cup {"destroy"} ELSE m.why,
          leaked |-> m.leaked]

\* Placement new of the values vals at slots lo .. lo+Len(vals)-1.
ConstructN(m, b, lo, vals) ==
    LET n == Len(vals) IN
    IF n = 0 THEN m
    ELSE IF ~InBlock(m.h, b, lo, n) THEN Undefined(m, "access")
    ELSE [h |-> [m.h EXCEPT ![b] =
                    [i \in DOMAIN @ |-> IF i - 1 >= lo /\ i - 1 < lo + n THEN vals[i - lo] ELSE @[i]]],
          ub |-> m.ub, why |-> m.why,
          leaked |-> m.leaked + Cardinality({i \in lo..(lo + n - 1) : m.h[b][i + 1] # Raw})]

\* Assignment to the live elements at slots lo .. lo+Len(vals)-1.
AssignN(m, b, lo, vals) ==
    LET n == Len(vals) IN
    IF n = 0 THEN m
    ELSE IF ~InBlock(m.h, b, lo, n) THEN Undefined(m, "access")
    ELSE [h |-> [m.h EXCEPT ![b] =
                    [i \in DOMAIN @ |-> IF i - 1 >= lo /\ i - 1 < lo + n THEN vals[i - lo] ELSE @[i]]],
          ub |-> m.ub \/ \E i \in lo..(lo + n - 1) : m.h[b][i + 1] = Raw,
          why |-> IF \E i \in lo..(lo + n - 1) : m.h[b][i + 1] = Raw
                  THEN m.why \cup {"access"} ELSE m.why,
          leaked |-> m.leaked]

\* The values read from slots lo .. lo+n-1 of block b (a raw slot reads as
\* Default and is flagged by ReadUB).
ReadN(h, b, lo, n) ==
    [k \in 1..n |-> IF InBlock(h, b, lo, n) /\ h[b][lo + k] # Raw THEN h[b][lo + k] ELSE Default]

ReadUB(h, b, lo, n) ==
    n > 0 /\ (~InBlock(h, b, lo, n) \/ \E k \in 1..n : h[b][lo + k] = Raw)

\* The sources of n moves are left moved-from when the type's move hollows.
HollowN(m, b, lo, n) ==
    IF n <= 0 \/ ~T.hollow \/ ~InBlock(m.h, b, lo, n) THEN m
    ELSE [m EXCEPT !.h[b] =
             [i \in DOMAIN @ |-> IF i - 1 >= lo /\ i - 1 < lo + n THEN Default ELSE @[i]]]

\* std::uninitialized_copy_n(src + so, n, dst + do) with the hit-th copy
\* throwing (0 = none): the hit-1 elements already built are destroyed by
\* the algorithm itself before the exception leaves it.
UninitCopyN(m, src, so, n, dst, do, hit) ==
    LET k  == IF hit = 0 THEN n ELSE hit - 1
        m0 == IF ReadUB(m.h, src, so, k) THEN Undefined(m, "access") ELSE m
        m1 == ConstructN(m0, dst, do, ReadN(m.h, src, so, k))
    IN  IF hit = 0 THEN m1 ELSE DestroyN(m1, dst, do, k)

\* std::uninitialized_move_n: as above, and the sources moved so far are
\* left moved-from.
UninitMoveN(m, src, so, n, dst, do, hit) ==
    LET k  == IF hit = 0 THEN n ELSE hit - 1
        m0 == IF ReadUB(m.h, src, so, k) THEN Undefined(m, "access") ELSE m
        m1 == HollowN(ConstructN(m0, dst, do, ReadN(m.h, src, so, k)), src, so, k)
    IN  IF hit = 0 THEN m1 ELSE DestroyN(m1, dst, do, k)

\* Mutant of Relocate: the last element is not relocated.
RelocateShort(m, src, so, n, dst, do, hit) ==
    LET k == IF n > 0 THEN n - 1 ELSE 0 IN
    IF RelocateByMove THEN UninitMoveN(m, src, so, k, dst, do, hit)
    ELSE UninitCopyN(m, src, so, k, dst, do, hit)

\* The relocation step shared by Reserve, EmplaceBack and Emplace.
Relocate(m, src, so, n, dst, do, hit) ==
    IF RelocateByMove THEN UninitMoveN(m, src, so, n, dst, do, hit)
    ELSE UninitCopyN(m, src, so, n, dst, do, hit)

\* Mutant of UninitValueN: the elements built before the throw are left alive.
UninitValueNKeep(m, b, lo, n, hit) ==
    ConstructN(m, b, lo, [j \in 1..(IF hit = 0 THEN n ELSE hit - 1) |-> Default])

\* std::uninitialized_value_construct_n(b + lo, n), the hit-th throwing.
UninitValueN(m, b, lo, n, hit) ==
    LET k  == IF hit = 0 THEN n ELSE hit - 1
        m1 == ConstructN(m, b, lo, [j \in 1..k |-> Default])
    IN  IF hit = 0 THEN m1 ELSE DestroyN(m1, b, lo, k)

\* std::move_backward(b + first, b + lst, b + lst + 1): move-assignments from
\* the back, the hit-th throwing.  After j of them slots lst-j+1 .. lst hold
\* the old values of lst-j .. lst-1 and slot lst-j is moved-from.
MoveBackward(m, b, first, lst, hit) ==
    LET n == lst - first
        j == IF hit = 0 THEN n ELSE hit - 1
    IN  IF j <= 0 THEN m
        ELSE IF ~InBlock(m.h, b, first, n + 1) THEN Undefined(m, "access")
        ELSE [h |-> [m.h EXCEPT ![b] =
                        [i \in DOMAIN @ |->
                            IF i - 1 > lst - j /\ i - 1 <= lst THEN @[i - 1]
                            ELSE IF i - 1 = lst - j /\ T.hollow THEN Default
                            ELSE @[i]]],
              ub |-> m.ub \/ \E i \in (lst - j)..lst : m.h[b][i + 1] = Raw,
              why |-> IF \E i \in (lst - j)..lst : m.h[b][i + 1] = Raw
                      THEN m.why \cup {"access"} ELSE m.why,
              leaked |-> m.leaked]

\* std::move(b + first, b + lst, b + first - 1): move-assignments from the
\* front, the hit-th throwing.  After j of them slots first-1 .. first+j-2
\* hold the old values of first .. first+j-1 and slot first+j-1 is moved-from.
MoveForward(m, b, first, lst, hit) ==
    LET n == lst - first
        j == IF hit = 0 THEN n ELSE hit - 1
    IN  IF j <= 0 THEN m
        ELSE IF first < 1 \/ ~InBlock(m.h, b, first - 1, n + 1) THEN Undefined(m, "access")
        ELSE [h |-> [m.h EXCEPT ![b] =
                        [i \in DOMAIN @ |->
                            IF i - 1 >= first - 1 /\ i - 1 < first + j - 1 THEN @[i + 1]
                            ELSE IF i - 1 = first + j - 1 /\ T.hollow THEN Default
                            ELSE @[i]]],
              ub |-> m.ub \/ \E i \in (first - 1)..(first + j - 1) : m.h[b][i + 1] = Raw,
              why |-> IF \E i \in (first - 1)..(first + j - 1) : m.h[b][i + 1] = Raw
                      THEN m.why \cup {"access"} ELSE m.why,
              leaked |-> m.leaked]

\* ------------------------------------------------------------- RawMemory
EmptyRaw == [buffer |-> Null, capacity |-> 0]

\* RawMemory(size_t capacity) on heap h.
RawMemoryOf(h, n) == [buffer |-> AllocId(h, n), capacity |-> n]

\* RawMemory::Swap: <<this, other>> after the call.
RawSwap(x, y) == <<y, x>>

\* Mutant of RawMoveCtor: the source keeps its block and capacity.
RawMoveCtorKeep(other) ==
    <<[buffer |-> other.buffer, capacity |-> other.capacity], other>>

\* RawMemory(RawMemory&& other): <<this, other>> after the call.
RawMoveCtor(other) ==
    <<[buffer |-> other.buffer, capacity |-> other.capacity], EmptyRaw>>

\* ---------------------------------------------------------------- Vector
\* A Vector is [alive, data, size]; alive is FALSE before construction and
\* after destruction.
NoVector == [alive |-> FALSE, data |-> EmptyRaw, size |-> 0]

Done(m, s, res, path) == [m |-> m, s |-> s, res |-> res, path |-> path]

\* Mutant of GrowCapacity: growth by one slot.
GrowCapacityByOne(n) == n + 1

\* The capacity a full vector grows to on an append or an insertion.
GrowCapacity(n) == IF n = 0 THEN 1 ELSE n * 2

\* ~Vector(): destroy_n(data_, size_), then ~RawMemory releases the block.
DestroyVector(m, s) ==
    Deallocate(DestroyN(m, s.data.buffer, 0, s.size), s.data.buffer)

\* Vector(size_t size)
SizedCtorRun(m, n, f, oom) ==
    IF AllocFails(m.h, n, oom) THEN Done(m, NoVector, "throw", "oom")
    ELSE
      LET data == RawMemoryOf(m.h, n)
          m1   == Allocate(m, n)
          hit  == Hit(f, n, CtorThrows)
          m2   == UninitValueN(m1, data.buffer, 0, n, hit)
      IN  IF hit # 0 THEN Done(Deallocate(m2, data.buffer), NoVector, "throw", "ctor")
          ELSE Done(m2, [alive |-> TRUE, data |-> data, size |-> n], "ok", "sized")

\* Mutant of CopyCtorRun: the copy shares the source's block.
CopyCtorRunShallow(m, other, f, oom) ==
    Done(m, [alive |-> TRUE, data |-> other.data, size |-> other.size], "ok", "copy")

\* Vector(const Vector& other)
CopyCtorRun(m, other, f, oom) ==
    IF AllocFails(m.h, other.size, oom) THEN Done(m, NoVector, "throw", "oom")
    ELSE
      LET data == RawMemoryOf(m.h, other.size)
          m1   == Allocate(m, other.size)
          hit  == Hit(f, other.size, CtorThrows)
          m2   == UninitCopyN(m1, other.data.buffer, 0, other.size, data.buffer, 0, hit)
      IN  IF hit # 0 THEN Done(Deallocate(m2, data.buffer), NoVector, "throw", "ctor")
          ELSE Done(m2, [alive |-> TRUE, data |-> data, size |-> other.size], "ok", "copy")

\* Vector(Vector&& other): <<this, other>> after the call.
MoveCtorRun(other) ==
    LET d == RawMoveCtor(other.data)
    IN  << [alive |-> TRUE, data |-> d[1], size |-> other.size],
           [other EXCEPT !.data = d[2], !.size = 0] >>

\* Mutant of ReserveRun: a failed allocation is swallowed.
ReserveRunSwallow(m, s, c, f, oom) ==
    IF c <= s.data.capacity THEN Done(m, s, "ok", "noop")
    ELSE IF AllocFails(m.h, c, oom) THEN Done(m, s, "ok", "oom")
    ELSE
      LET new_data == RawMemoryOf(m.h, c)
          m1  == Allocate(m, c)
          hit == Hit(f, s.size, RelocThrows)
          m2  == Relocate(m1, s.data.buffer, 0, s.size, new_data.buffer, 0, hit)
      IN  IF hit # 0 THEN Done(Deallocate(m2, new_data.buffer), s, "throw", "reloc")
          ELSE Done(Deallocate(DestroyN(m2, s.data.buffer, 0, s.size), s.data.buffer),
                    [s EXCEPT !.data = new_data], "ok", "grow")

\* Vector::Reserve
ReserveRun(m, s, c, f, oom) ==
    IF c <= s.data.capacity THEN Done(m, s, "ok", "noop")
    ELSE IF AllocFails(m.h, c, oom) THEN Done(m, s, "throw", "oom")
    ELSE
      LET new_data == RawMemoryOf(m.h, c)
          m1  == Allocate(m, c)
          hit == Hit(f, s.size, RelocThrows)
          m2  == Relocate(m1, s.data.buffer, 0, s.size, new_data.buffer, 0, hit)
      IN  IF hit # 0 THEN Done(Deallocate(m2, new_data.buffer), s, "throw", "reloc")
          ELSE
            LET m3 == DestroyN(m2, s.data.buffer, 0, s.size)
                sw == RawSwap(s.data, new_data)
            IN  Done(Deallocate(m3, sw[2].buffer), [s EXCEPT !.data = sw[1]], "ok", "grow")

\* Vector::Swap: <<this, other>> after the call.
SwapRun(s, o) ==
    LET sw == RawSwap(s.data, o.data)
    IN  << [s EXCEPT !.data = sw[1], !.size = o.size],
           [o EXCEPT !.data = sw[2], !.size = s.size] >>

\* Mutant of MoveAssignRun: the sizes move, the stores are not swapped.
MoveAssignRunNoSwap(s, rhs) ==
    << [s EXCEPT !.size = rhs.size], [rhs EXCEPT !.size = 0] >>

\* Vector::operator=(Vector&&), this != &rhs: <<this, rhs>> after the call.
MoveAssignRun(s, rhs) ==
    LET sw == RawSwap(s.data, rhs.data)
    IN  << [s EXCEPT !.data = sw[1], !.size = rhs.size],
           [rhs EXCEPT !.data = sw[2], !.size = 0] >>

\* Mutant of CopyAssignRun: copy-and-swap whatever the capacity.
CopyAssignRunRealloc(m, s, rhs, f, oom) ==
    LET c == CopyCtorRun(m, rhs, f, oom)
    IN  IF c.res # "ok" THEN Done(c.m, s, "throw", c.path)
        ELSE LET sw == SwapRun(s, c.s)
             IN  Done(DestroyVector(c.m, sw[2]), sw[1], "ok", "realloc")

\* Vector::operator=(const Vector&), this != &rhs.
CopyAssignRun(m, s, rhs, f, oom) ==
    IF rhs.size > s.data.capacity THEN
      \* copy-and-swap: Vector rhs_copy(rhs); Swap(rhs_copy); ~rhs_copy
      LET c == CopyCtorRun(m, rhs, f, oom)
      IN  IF c.res # "ok" THEN Done(c.m, s, "throw", c.path)
          ELSE LET sw == SwapRun(s, c.s)
               IN  Done(DestroyVector(c.m, sw[2]), sw[1], "ok", "realloc")
    ELSE IF rhs.size < s.size THEN
      LET hit == Hit(f, rhs.size, CtorThrows)
          k   == IF hit = 0 THEN rhs.size ELSE hit - 1
          m1  == AssignN(m, s.data.buffer, 0, ReadN(m.h, rhs.data.buffer, 0, k))
      IN  IF hit # 0 THEN Done(m1, s, "throw", "assign")
          ELSE Done(DestroyN(m1, s.data.buffer, rhs.size, s.size - rhs.size),
                    [s EXCEPT !.size = rhs.size], "ok", "shrink")
    ELSE
      LET hit == Hit(f, s.size, CtorThrows)
          k   == IF hit = 0 THEN s.size ELSE hit - 1
          m1  == AssignN(m, s.data.buffer, 0, ReadN(m.h, rhs.data.buffer, 0, k))
          f2  == Rest(f, s.size, CtorThrows)
          h2  == Hit(f2, rhs.size - s.size, CtorThrows)
          m2  == UninitCopyN(m1, rhs.data.buffer, s.size, rhs.size - s.size,
                             s.data.buffer, s.size, h2)
      IN  IF hit # 0 THEN Done(m1, s, "throw", "assign")
          ELSE IF h2 # 0 THEN Done(m2, s, "throw", "ctor")
          ELSE Done(m2, [s EXCEPT !.size = rhs.size], "ok", "extend")

\* Mutant of ResizeRun: the new tail is counted but never constructed.
ResizeRunNoFill(m, s, n, f, oom) ==
    IF n < s.size THEN
      Done(DestroyN(m, s.data.buffer, n, s.size - n), [s EXCEPT !.size = n], "ok", "shrink")
    ELSE
      LET r == ReserveRun(m, s, n, f, oom)
      IN  IF r.res # "ok" THEN r ELSE Done(r.m, [r.s EXCEPT !.size = n], "ok", "extend")

\* Vector::Resize
ResizeRun(m, s, n, f, oom) ==
    IF n < s.size THEN
      Done(DestroyN(m, s.data.buffer, n, s.size - n), [s EXCEPT !.size = n], "ok", "shrink")
    ELSE
      LET r   == ReserveRun(m, s, n, f, oom)
          f2  == IF r.path = "grow" THEN Rest(f, s.size, RelocThrows) ELSE f
          hit == Hit(f2, n - s.size, CtorThrows)
          m2  == UninitValueN(r.m, r.s.data.buffer, s.size, n - s.size, hit)
      IN  IF r.res # "ok" THEN r
          ELSE IF hit # 0 THEN Done(m2, r.s, "throw", "ctor")
          ELSE Done(m2, [r.s EXCEPT !.size = n], "ok", IF r.path = "grow" THEN "grow" ELSE "extend")

\* Vector::PopBack, size_ != 0.
PopBackRun(m, s) ==
    Done(DestroyN(m, s.data.buffer, s.size - 1, 1), [s EXCEPT !.size = s.size - 1], "ok", "pop")

\* Mutant of EmplaceBackRun: the old elements are destroyed before the new one
\* is constructed, and there is no growth.
EmplaceBackRunClear(m, s, x, f, oom) ==
    IF Hit(f, 1, CtorThrows) # 0
    THEN Done(DestroyN(m, s.data.buffer, 0, s.size), [s EXCEPT !.size = 0], "throw", "ctor")
    ELSE IF s.size = s.data.capacity THEN Done(m, s, "throw", "oom")
    ELSE Done(ConstructN(m, s.data.buffer, s.size, <<x>>),
              [s EXCEPT !.size = s.size + 1], "ok", "spare")

\* Vector::EmplaceBack (PushBack forwards to it).
EmplaceBackRun(m, s, x, f, oom) ==
    LET hitC == Hit(f, 1, CtorThrows)
        f2   == Rest(f, 1, CtorThrows)
    IN
    IF s.size = s.data.capacity THEN
      LET c == GrowCapacity(s.size) IN
      IF AllocFails(m.h, c, oom) THEN Done(m, s, "throw", "oom")
      ELSE
        LET new_data == RawMemoryOf(m.h, c)
            m1  == Allocate(m, c)
            m2  == ConstructN(m1, new_data.buffer, s.size, <<x>>)
            hit == Hit(f2, s.size, RelocThrows)
            m3  == Relocate(m2, s.data.buffer, 0, s.size, new_data.buffer, 0, hit)
        IN  IF hitC # 0 THEN Done(Deallocate(m1, new_data.buffer), s, "throw", "ctor")
            ELSE IF hit # 0 THEN
              \* catch (...) { std::destroy_n(new_data.GetAddress(), size_); throw; }
              Done(Deallocate(DestroyN(m3, new_data.buffer, 0, s.size), new_data.buffer),
                   s, "throw", "reloc")
            ELSE
              LET m4 == DestroyN(m3, s.data.buffer, 0, s.size)
                  sw == RawSwap(s.data, new_data)
              IN  Done(Deallocate(m4, sw[2].buffer),
                       [s EXCEPT !.data = sw[1], !.size = s.size + 1], "ok", "grow")
    ELSE
      IF hitC # 0 THEN Done(m, s, "throw", "ctor")
      ELSE Done(ConstructN(m, s.data.buffer, s.size, <<x>>),
                [s EXCEPT !.size = s.size + 1], "ok", "spare")

\* Vector::Emplace (Insert forwards to it); pos is num_pos, 0 <= pos <= size_.
EmplaceRun(m, s, pos, x, f, oom) ==
    LET hitC == Hit(f, 1, CtorThrows)
        f2   == Rest(f, 1, CtorThrows)
        old  == s.data.buffer
    IN
    IF s.size = s.data.capacity THEN
      LET c == GrowCapacity(s.size) IN
      IF AllocFails(m.h, c, oom) THEN Done(m, s, "throw", "oom")
      ELSE
        LET new_data == RawMemoryOf(m.h, c)
            nb  == new_data.buffer
            m1  == Allocate(m, c)
            m2  == ConstructN(m1, nb, pos, <<x>>)
            h1  == Hit(f2, pos, RelocThrows)
            m3  == Relocate(m2, old, 0, pos, nb, 0, h1)
            f3  == Rest(f2, pos, RelocThrows)
            h2  == Hit(f3, s.size - pos, RelocThrows)
            m4  == Relocate(m3, old, pos, s.size - pos, nb, pos + 1, h2)
        IN  IF hitC # 0 THEN Done(Deallocate(m1, nb), s, "throw", "ctor")
            ELSE IF h1 # 0 THEN
              \* copy branch only: catch (...) { std::destroy_at(new_data + num_pos); throw; }
              Done(Deallocate(IF RelocateByMove THEN m3 ELSE DestroyN(m3, nb, pos, 1), nb),
                   s, "throw", "reloc")
            ELSE IF h2 # 0 THEN
              \* copy branch only: catch (...) { std::destroy_n(new_data, num_pos); throw; }
              Done(Deallocate(IF RelocateByMove THEN m4 ELSE DestroyN(m4, nb, 0, pos), nb),
                   s, "throw", "reloc")
            ELSE
              LET m5 == DestroyN(m4, old, 0, s.size)
                  sw == RawSwap(s.data, new_data)
              IN  Done(Deallocate(m5, sw[2].buffer),
                       [s EXCEPT !.data = sw[1], !.size = s.size + 1], "ok", "grow")
    ELSE IF pos = s.size THEN
      IF hitC # 0 THEN Done(m, s, "throw", "ctor")
      ELSE Done(ConstructN(m, old, s.size, <<x>>), [s EXCEPT !.size = s.size + 1], "ok", "end")
    ELSE
      LET \* T temporary_value(args...);  new (end()) T(std::forward<T>(data_[0]));
          hM == Hit(f2, 1, MoveThrows)
          m0 == IF ReadUB(m.h, old, 0, 1) THEN Undefined(m, "access") ELSE m
          m1 == HollowN(ConstructN(m0, old, s.size, ReadN(m.h, old, 0, 1)), old, 0, 1)
          \* std::move_backward(begin() + num_pos, end() - 1, end());
          f3 == Rest(f2, 1, MoveThrows)
          hB == Hit(f3, s.size - 1 - pos, MoveThrows)
          m2 == MoveBackward(m1, old, pos, s.size - 1, hB)
          \* *(begin() + num_pos) = std::forward<T>(temporary_value);
          f4 == Rest(f3, s.size - 1 - pos, MoveThrows)
          hA == Hit(f4, 1, MoveThrows)
      IN  IF hitC # 0 THEN Done(m, s, "throw", "ctor")
          ELSE IF hM # 0 THEN Done(m, s, "throw", "ctor")
          ELSE IF hB # 0 THEN Done(DestroyN(m2, old, s.size, 1), s, "throw", "shift")
          ELSE IF hA # 0 THEN Done(m2, s, "throw", "assign")
          ELSE Done(AssignN(m2, old, pos, <<x>>), [s EXCEPT !.size = s.size + 1], "ok", "shift")

\* Mutant of EraseRun: the tail is not shifted before the last element goes.
EraseRunNoShift(m, s, pos, f) ==
    Done(DestroyN(m, s.data.buffer, s.size - 1, 1), [s EXCEPT !.size = s.size - 1], "ok", "pop")

\* Vector::Erase; pos is num_pos, 0 <= pos < size_.
EraseRun(m, s, pos, f) ==
    LET hit == Hit(f, s.size - 1 - pos, MoveThrows)
        m1  == MoveForward(m, s.data.buffer, pos + 1, s.size, hit)
    IN  IF hit # 0 THEN Done(m1, s, "throw", "shift")
        ELSE PopBackRun(m1, s)

\* v[index] = x through Vector::operator[], index < size_.
WriteRun(m, s, index, x, f) ==
    IF Hit(f, 1, CtorThrows) # 0 THEN Done(m, s, "throw", "assign")
    ELSE Done(AssignN(m, s.data.buffer, index, <<x>>), s, "ok", "write")

\* --------------------------------------------------------------- actions
\* The elements of vector v, slots [0, size_), as the caller reads them.
Elems(v) ==
    [i \in 1..vec[v].size |->
        IF InBlock(heap, vec[v].data.buffer, 0, vec[v].size)
        THEN heap[vec[v].data.buffer][i] ELSE Raw]
Size(v) == vec[v].size
Capacity(v) == vec[v].data.capacity
Full(s) == s.size = s.data.capacity

\* No call has been singled out yet.
Idle == [op |-> "none", self |-> "none", res |-> "none", path |-> "none",
         ub |-> FALSE, why |-> {}, leaked |-> 0]
Running == last = Idle

\* The faults a call can be given: f, the element operation that throws
\* (0 = none, at most the number of throwing operations the call performs),
\* and oom, operator new failing (only if the call allocates).
FailPoints(lim) == IF T.throws THEN 0..(lim + 2) ELSE {0}
Cnt(n, can) == IF can /\ n > 0 THEN n ELSE 0
Fault(f, oom, ops, allocs) == f <= ops /\ (oom => (allocs /\ f = 0))

SizedCtorOps(n) == Cnt(n, CtorThrows)
CopyCtorOps(o) == Cnt(o.size, CtorThrows)
ReserveOps(s, c) == IF c > s.data.capacity THEN Cnt(s.size, RelocThrows) ELSE 0
CopyAssignOps(rhs) == Cnt(rhs.size, CtorThrows)
ResizeOps(s, n) == IF n < s.size THEN 0 ELSE ReserveOps(s, n) + Cnt(n - s.size, CtorThrows)
EmplaceBackOps(s) == Cnt(1, CtorThrows) + (IF Full(s) THEN Cnt(s.size, RelocThrows) ELSE 0)
EmplaceOps(s, pos) ==
    Cnt(1, CtorThrows) + (IF Full(s) THEN Cnt(s.size, RelocThrows)
                          ELSE IF pos = s.size THEN 0
                          ELSE Cnt(s.size - pos + 1, MoveThrows))
EraseOps(s, pos) == Cnt(s.size - 1 - pos, MoveThrows)

\* Block ids stand for addresses, which the code never compares or computes
\* with across blocks, so a heap is kept in one canonical naming: the blocks
\* of the vectors first, in the order of Vecs, then any block no vector owns.
RECURSIVE SortedSeq(_)
SortedSeq(S) == IF S = {} THEN <<>> ELSE <<MinOf(S)>> \o SortedSeq(S \ {MinOf(S)})

BlockOrder(h, vs) ==
    LET A == vs["a"].data.buffer
        B == vs["b"].data.buffer
        first  == IF Allocated(h, A) THEN <<A>> ELSE <<>>
        second == IF Allocated(h, B) /\ B # A THEN <<B>> ELSE <<>>
        owned  == {A, B}
    IN  first \o second \o SortedSeq({b \in Blocks : h[b] # <<>> /\ b \notin owned})

NewName(order, b) ==
    IF \E k \in DOMAIN order : order[k] = b
    THEN CHOOSE k \in DOMAIN order : order[k] = b
    ELSE b

CanonHeap(h, vs) ==
    LET order == BlockOrder(h, vs)
    IN  [b \in Blocks |-> IF b <= Len(order) THEN h[order[b]] ELSE <<>>]

CanonVecs(h, vs) ==
    LET order == BlockOrder(h, vs)
    IN  [v \in Vecs |-> [vs[v] EXCEPT !.data.buffer = NewName(order, @)]]

\* The state after a call: its result r and the vectors as the call left
\* them.  A run is followed call by call with nothing recorded (last stays
\* Idle) until one call is singled out: last then holds what the caller of
\* that call saw (self is the vector it was called on), and the run is
\* examined there and followed no further.
\* Undefined behaviour in the observed call either goes unnoticed or
\* terminates the process; an unobserved run goes on only if unnoticed.
Finish(op, v, r, newvec) ==
    /\ vec' = CanonVecs(r.m.h, newvec)
    /\ heap' = CanonHeap(r.m.h, newvec)
    /\ \/ last' = Idle
       \/ \E out \in (IF r.m.ub THEN {r.res, "crash"} ELSE {r.res}) :
             last' = [op |-> op, self |-> v, res |-> out, path |-> r.path,
                      ub |-> r.m.ub, why |-> r.m.why, leaked |-> r.m.leaked]
    /\ UNCHANGED T

Finish1(op, v, r) == Finish(op, v, r, [vec EXCEPT ![v] = r.s])

Finish2(op, v, o, pair) ==
    Finish(op, v, Done(Mem(heap), pair[1], "ok", "pair"), [vec EXCEPT ![v] = pair[1], ![o] = pair[2]])

DefaultCtor(v) ==
    /\ Running /\ ~vec[v].alive
    /\ Finish1("DefaultCtor", v, Done(Mem(heap), [alive |-> TRUE, data |-> EmptyRaw, size |-> 0], "ok", "default"))

SizedCtor(v, n, f, oom) ==
    /\ Running /\ ~vec[v].alive
    /\ Fault(f, oom, SizedCtorOps(n), n > 0)
    /\ Finish1("SizedCtor", v, SizedCtorRun(Mem(heap), n, f, oom))

CopyCtor(v, o, f, oom) ==
    /\ Running /\ ~vec[v].alive /\ v # o /\ vec[o].alive /\ T.copyable
    /\ Fault(f, oom, CopyCtorOps(vec[o]), vec[o].size > 0)
    /\ Finish1("CopyCtor", v, CopyCtorRun(Mem(heap), vec[o], f, oom))

MoveCtor(v, o) ==
    /\ Running /\ ~vec[v].alive /\ v # o /\ vec[o].alive
    /\ Finish2("MoveCtor", v, o, MoveCtorRun(vec[o]))

Dtor(v) ==
    /\ Running /\ vec[v].alive
    /\ Finish1("Dtor", v, Done(DestroyVector(Mem(heap), vec[v]), NoVector, "ok", "dtor"))

Reserve(v, c, f, oom) ==
    /\ Running /\ vec[v].alive
    /\ Fault(f, oom, ReserveOps(vec[v], c), c > Capacity(v))
    /\ Finish1("Reserve", v, ReserveRun(Mem(heap), vec[v], c, f, oom))

Swap(v, o) ==
    /\ Running /\ vec[v].alive /\ vec[o].alive
    /\ IF v = o THEN Finish1("Swap", v, Done(Mem(heap), vec[v], "ok", "self"))
       ELSE Finish2("Swap", v, o, SwapRun(vec[v], vec[o]))

CopyAssign(v, o, f, oom) ==
    /\ Running /\ vec[v].alive /\ vec[o].alive /\ T.copyable
    /\ IF v = o
       THEN /\ f = 0 /\ ~oom
            /\ Finish1("CopyAssign", v, Done(Mem(heap), vec[v], "ok", "self"))
       ELSE /\ Fault(f, oom, CopyAssignOps(vec[o]), vec[o].size > Capacity(v))
            /\ Finish1("CopyAssign", v, CopyAssignRun(Mem(heap), vec[v], vec[o], f, oom))

MoveAssign(v, o) ==
    /\ Running /\ vec[v].alive /\ vec[o].alive
    /\ IF v = o THEN Finish1("MoveAssign", v, Done(Mem(heap), vec[v], "ok", "self"))
       ELSE Finish2("MoveAssign", v, o, MoveAssignRun(vec[v], vec[o]))

Resize(v, n, f, oom) ==
    /\ Running /\ vec[v].alive
    /\ Fault(f, oom, ResizeOps(vec[v], n), n >= Size(v) /\ n > Capacity(v))
    /\ Finish1("Resize", v, ResizeRun(Mem(heap), vec[v], n, f, oom))

EmplaceBack(v, x, f, oom, lim) ==
    /\ Running /\ vec[v].alive
    /\ ~Full(vec[v]) \/ GrowCapacity(Size(v)) <= lim
    /\ Fault(f, oom, EmplaceBackOps(vec[v]), Full(vec[v]))
    /\ Finish1("EmplaceBack", v, EmplaceBackRun(Mem(heap), vec[v], x, f, oom))

PopBack(v) ==
    /\ Running /\ vec[v].alive /\ Size(v) # 0
    /\ Finish1("PopBack", v, PopBackRun(Mem(heap), vec[v]))

Emplace(v, pos, x, f, oom, lim) ==
    /\ Running /\ vec[v].alive
    /\ pos <= Size(v)
    /\ ~Full(vec[v]) \/ GrowCapacity(Size(v)) <= lim
    /\ Fault(f, oom, EmplaceOps(vec[v], pos), Full(vec[v]))
    /\ Finish1("Emplace", v, EmplaceRun(Mem(heap), vec[v], pos, x, f, oom))

Erase(v, pos, f) ==
    /\ Running /\ vec[v].alive
    /\ pos < Size(v)
    /\ f <= EraseOps(vec[v], pos)
    /\ Finish1("Erase", v, EraseRun(Mem(heap), vec[v], pos, f))

Write(v, index, x, f) ==
    /\ Running /\ vec[v].alive
    /\ index < Size(v)
    /\ f <= Cnt(1, CtorThrows)
    /\ Finish1("Write", v, WriteRun(Mem(heap), vec[v], index, x, f))

\* -------------------------------------------------------- specifications
Init ==
    /\ T \in ElemTypes
    /\ vec = [v \in Vecs |-> NoVector]
    /\ heap = [b \in Blocks |-> <<>>]
    /\ last = Idle

\* Every member function, on two vectors.
Next ==
    \/ Running /\ \E v \in Vecs : DefaultCtor(v)
    \/ Running /\ \E v \in Vecs, n \in 0..PairCap, f \in FailPoints(PairCap), oom \in BOOLEAN :
          SizedCtor(v, n, f, oom)
    \/ Running /\ \E v \in Vecs, o \in Vecs, f \in FailPoints(PairCap), oom \in BOOLEAN :
          CopyCtor(v, o, f, oom)
    \/ Running /\ \E v \in Vecs, o \in Vecs : MoveCtor(v, o)
    \/ Running /\ \E v \in Vecs : Dtor(v)
    \/ Running /\ \E v \in Vecs, c \in 0..PairCap, f \in FailPoints(PairCap), oom \in BOOLEAN :
          Reserve(v, c, f, oom)
    \/ Running /\ \E v \in Vecs, o \in Vecs : Swap(v, o)
    \/ Running /\ \E v \in Vecs, o \in Vecs, f \in FailPoints(PairCap), oom \in BOOLEAN :
          CopyAssign(v, o, f, oom)
    \/ Running /\ \E v \in Vecs, o \in Vecs : MoveAssign(v, o)
    \/ Running /\ \E v \in Vecs, n \in 0..PairCap, f \in FailPoints(PairCap), oom \in BOOLEAN :
          Resize(v, n, f, oom)
    \/ Running /\ \E v \in Vecs, x \in PairValues, f \in FailPoints(PairCap), oom \in BOOLEAN :
          EmplaceBack(v, x, f, oom, PairCap)
    \/ Running /\ \E v \in Vecs : PopBack(v)
    \/ Running /\ \E v \in Vecs, pos \in 0..PairCap, x \in PairValues, f \in FailPoints(PairCap), oom \in BOOLEAN :
          Emplace(v, pos, x, f, oom, PairCap)
    \/ Running /\ \E v \in Vecs, pos \in 0..PairCap, f \in FailPoints(PairCap) : Erase(v, pos, f)
    \/ Running /\ \E v \in Vecs, i \in 0..PairCap, x \in PairValues, f \in FailPoints(PairCap) :
          Write(v, i, x, f)

Spec == Init /\ [][Next]_vars

\* The member functions of one vector, on vector "a" alone, with room for
\* four elements.
NextSingle ==
    \/ Running /\ DefaultCtor("a")
    \/ Running /\ \E n \in 0..MaxCap, f \in FailPoints(MaxCap), oom \in BOOLEAN : SizedCtor("a", n, f, oom)
    \/ Running /\ Dtor("a")
    \/ Running /\ \E c \in 0..MaxCap, f \in FailPoints(MaxCap), oom \in BOOLEAN : Reserve("a", c, f, oom)
    \/ Running /\ \E n \in 0..MaxCap, f \in FailPoints(MaxCap), oom \in BOOLEAN : Resize("a", n, f, oom)
    \/ Running /\ \E x \in Values, f \in FailPoints(MaxCap), oom \in BOOLEAN :
          EmplaceBack("a", x, f, oom, MaxCap)
    \/ Running /\ PopBack("a")
    \/ Running /\ \E pos \in 0..MaxCap, x \in Values, f \in FailPoints(MaxCap), oom \in BOOLEAN :
          Emplace("a", pos, x, f, oom, MaxCap)
    \/ Running /\ \E pos \in 0..MaxCap, f \in FailPoints(MaxCap) : Erase("a", pos, f)
    \/ Running /\ \E i \in 0..MaxCap, x \in Values, f \in FailPoints(MaxCap) : Write("a", i, x, f)

SpecSingle == Init /\ [][NextSingle]_vars

\* A default-constructed vector and appends only.
NextAppend ==
    \/ Running /\ DefaultCtor("a")
    \/ Running /\ \E x \in Values, f \in FailPoints(AppendCap), oom \in BOOLEAN :
          EmplaceBack("a", x, f, oom, AppendCap)

SpecAppend == Init /\ [][NextAppend]_vars

\* ---------------------------------------------------------------- claims
\* Sequence operations the claims are stated with (positions are 0-based).
InsertAt(s, i, x) == SubSeq(s, 1, i) \o <<x>> \o SubSeq(s, i + 1, Len(s))
RemoveAt(s, i) == SubSeq(s, 1, i) \o SubSeq(s, i + 2, Len(s))
Pow2Ceil(n) ==
    IF n = 0 THEN 0
    ELSE CHOOSE p \in {1, 2, 4, 8, 16, 32} :
            p >= n /\ \A q \in {1, 2, 4, 8, 16, 32} : q >= n => p <= q
\* The step is the observed call, and it returned / it threw.
Returned == last'.res = "ok"
Threw == last'.res = "throw"

\* C1: an Insert/Emplace of x at index pos that returns leaves the array equal
\* to the old one with x inserted at pos, and the size one larger.
C1_InsertYields ==
    [][\A pos \in 0..MaxCap, x \in Values, f \in FailPoints(MaxCap), oom \in BOOLEAN :
          (Returned /\ Emplace("a", pos, x, f, oom, MaxCap))
              => /\ Elems("a")' = InsertAt(Elems("a"), pos, x)
                 /\ Size("a")' = Size("a") + 1]_vars

\* C2: an Erase at index pos that returns leaves the array equal to the old
\* one without its element at pos, the size one smaller, the capacity as it was.
C2_EraseYields ==
    [][(Returned /\ last'.op = "Erase") =>
        \A pos \in 0..MaxCap, f \in FailPoints(MaxCap) :
          Erase("a", pos, f)
              => /\ Elems("a")' = RemoveAt(Elems("a"), pos)
                 /\ Size("a")' = Size("a") - 1
                 /\ Capacity("a")' = Capacity("a")]_vars

C2_Witness ==
    /\ last.op = "Erase" /\ last.res = "ok"
    /\ Size("a") = 3 /\ Capacity("a") = 4
    /\ Elems("a")[1] # Elems("a")[2] /\ Elems("a")[2] # Elems("a")[3]

\* C3: under the copy policy, a copy that fails while the existing elements
\* are relocated (in Reserve, EmplaceBack or Emplace) leaves size, capacity
\* and elements as before the call, and the failure reaches the caller.
C3_StrongOnCopyFailure ==
    [][(/\ ~RelocateByMove
        /\ last'.op \in {"Reserve", "EmplaceBack", "Emplace"}
        /\ last'.path = "reloc")
          => /\ last'.res = "throw"
             /\ Elems("a")' = Elems("a")
             /\ Size("a")' = Size("a")
             /\ Capacity("a")' = Capacity("a")]_vars

\* Exactly the slots [0, size) of v's store hold live elements.
LiveExactly(v) ==
    LET b == vec[v].data.buffer
    IN  /\ Size(v) <= Capacity(v)
        /\ Capacity(v) = 0 \/ (Allocated(heap, b) /\ Len(heap[b]) = Capacity(v))
        /\ \A i \in 1..Capacity(v) : (heap[b][i] # Raw) <=> (i <= Size(v))

\* C4: after any sequence of completed operations (the element type's
\* operations never fail, so every call completes) exactly the slots
\* [0, size) of every array are live and the slots [size, capacity) are raw.
C4_LiveSlots == ~T.throws => \A v \in Vecs : vec[v].alive => LiveExactly(v)

\* C5: move assignment v = std::move(o), v and o distinct, exchanges store and
\* size: v gets o's elements, size and capacity, o gets v's.
C5_MoveAssignExchanges ==
    [][\A v \in Vecs, o \in Vecs :
          (v # o /\ MoveAssign(v, o))
              => /\ Elems(v)' = Elems(o) /\ Size(v)' = Size(o) /\ Capacity(v)' = Capacity(o)
                 /\ Elems(o)' = Elems(v) /\ Size(o)' = Size(v) /\ Capacity(o)' = Capacity(v)]_vars

\* C6: 0 <= size <= capacity in every reachable state of every array.
C6_SizeWithinCapacity == \A v \in Vecs : 0 <= Size(v) /\ Size(v) <= Capacity(v)

C6_Witness ==
    /\ last.op = "Resize" /\ last.res = "throw" /\ last.path = "ctor"
    /\ \E v \in Vecs : vec[v].alive /\ Size(v) = 1 /\ Capacity(v) = 2

\* C7: from an empty array and appends only, every append that returns makes
\* the size one larger and the capacity the smallest power of two that holds
\* it; a growth goes to max(1, 2 x size).
C7_Doubling ==
    [][\A x \in Values, f \in FailPoints(AppendCap), oom \in BOOLEAN :
          (Returned /\ EmplaceBack("a", x, f, oom, AppendCap))
              => /\ Size("a")' = Size("a") + 1
                 /\ Capacity("a")' = Pow2Ceil(Size("a")')
                 /\ Size("a") = Capacity("a")
                      => Capacity("a")' = (IF Size("a") = 0 THEN 1 ELSE 2 * Size("a"))]_vars

C7_Witness ==
    /\ last.op = "EmplaceBack" /\ last.res = "ok" /\ last.path = "grow"
    /\ Size("a") = 5 /\ Capacity("a") = 8

\* C8: move construction of v from o leaves o as an empty array (size 0,
\* capacity 0, no block), alive and in the state of a default-constructed one;
\* v holds the elements, size and capacity o had.
C8_MoveCtorTransfers ==
    [][last'.op = "MoveCtor" =>
        \A v \in Vecs, o \in Vecs :
          MoveCtor(v, o)
              => /\ vec'[o] = [alive |-> TRUE, data |-> EmptyRaw, size |-> 0]
                 /\ Elems(v)' = Elems(o) /\ Size(v)' = Size(o) /\ Capacity(v)' = Capacity(o)]_vars

C8_Witness ==
    /\ last.op = "MoveCtor"
    /\ vec["a"].alive /\ vec["b"].alive
    /\ \E v \in Vecs, o \in Vecs :
          /\ Size(v) = 2 /\ Elems(v)[1] # Elems(v)[2]
          /\ Size(o) = 0 /\ Capacity(o) = 0

\* A call of a mutating member function of v that takes no other vector, or
\* takes one as the source of a copy assignment.
Mutates(v) ==
    /\ last'.self = v
    /\ \E n \in 0..PairCap, x \in PairValues, f \in FailPoints(PairCap), oom \in BOOLEAN :
        \/ last'.op = "Reserve" /\ Reserve(v, n, f, oom)
        \/ last'.op = "Resize" /\ Resize(v, n, f, oom)
        \/ last'.op = "EmplaceBack" /\ EmplaceBack(v, x, f, oom, PairCap)
        \/ last'.op = "PopBack" /\ PopBack(v)
        \/ last'.op = "Emplace" /\ Emplace(v, n, x, f, oom, PairCap)
        \/ last'.op = "Erase" /\ Erase(v, n, f)
        \/ last'.op = "Write" /\ Write(v, n, x, f)
        \/ last'.op = "CopyAssign" /\ \E src \in Vecs : CopyAssign(v, src, f, oom)

\* C9: a copy-constructed array has the size and elements of the original,
\* and no mutation of one array changes the size or the elements of another.
C9_DeepCopy ==
    [][\A v \in Vecs, o \in Vecs :
          (v # o /\ last'.self = v) =>
            /\ (/\ Returned /\ last'.op = "CopyCtor"
                /\ \E f \in FailPoints(PairCap), oom \in BOOLEAN : CopyCtor(v, o, f, oom))
                  => /\ Elems(v)' = Elems(o) /\ Size(v)' = Size(o)
                     /\ Elems(o)' = Elems(o) /\ Size(o)' = Size(o)
            /\ (Elems(o)' = Elems(o) /\ Size(o)' = Size(o)) \/ ~Mutates(v)]_vars

C9_Witness ==
    /\ last.op = "CopyCtor" /\ last.res = "ok"
    /\ vec["a"].alive /\ vec["b"].alive
    /\ Size("a") = 2 /\ Elems("a") = Elems("b") /\ Elems("a")[1] # Elems("a")[2]
    /\ vec["a"].data.buffer # vec["b"].data.buffer

\* C10 as stated: Reserve(c) never changes the size or the elements; with
\* c <= capacity the capacity stays, with c > capacity a call that returns
\* makes the capacity exactly c.
C10_ReserveFrame ==
    [][((Returned \/ Threw) /\ last'.op = "Reserve") =>
        \A c \in 0..MaxCap, f \in FailPoints(MaxCap), oom \in BOOLEAN :
          Reserve("a", c, f, oom)
              => /\ Size("a")' = Size("a") /\ Elems("a")' = Elems("a")
                 /\ c <= Capacity("a") => Capacity("a")' = Capacity("a")
                 /\ (c > Capacity("a") /\ Returned) => Capacity("a")' = c]_vars

\* C10 amended: Reserve(c) never changes the size; it does not change the
\* elements when it returns, when the allocation fails or when relocation is
\* by copy; with c <= capacity it returns and the capacity stays, with
\* c > capacity a call that returns makes the capacity exactly c, and a call
\* that throws leaves the capacity as it was.
C10_ReserveFrameAmended ==
    [][((Returned \/ Threw) /\ last'.op = "Reserve") =>
        \A c \in 0..MaxCap, f \in FailPoints(MaxCap), oom \in BOOLEAN :
          Reserve("a", c, f, oom)
              => /\ Size("a")' = Size("a")
                 /\ (Returned \/ last'.path = "oom" \/ ~RelocateByMove) => Elems("a")' = Elems("a")
                 /\ c <= Capacity("a") => (Capacity("a")' = Capacity("a") /\ Returned)
                 /\ (c > Capacity("a") /\ Returned) => Capacity("a")' = c
                 /\ Threw => Capacity("a")' = Capacity("a")]_vars

C10_Witness ==
    /\ last.op = "Reserve" /\ last.res = "ok" /\ last.path = "grow"
    /\ Size("a") = 2 /\ Capacity("a") = 3 /\ Elems("a")[1] # Elems("a")[2]
    /\ ~RelocateByMove

\* n default-valued elements.
Defaults(n) == [i \in 1..n |-> Default]

\* C11: a Resize(n) that returns leaves, for n above the size, the old
\* elements followed by n - size default-valued ones, and for n at most the
\* size the first n elements and the capacity as it was; the size is n.
C11_ResizeYields ==
    [][(Returned /\ last'.op = "Resize") =>
        \A n \in 0..MaxCap, f \in FailPoints(MaxCap), oom \in BOOLEAN :
          Resize("a", n, f, oom)
              => /\ Size("a")' = n
                 /\ n > Size("a") => Elems("a")' = Elems("a") \o Defaults(n - Size("a"))
                 /\ n <= Size("a") => /\ Elems("a")' = SubSeq(Elems("a"), 1, n)
                                      /\ Capacity("a")' = Capacity("a")]_vars

C11_Witness ==
    /\ last.op = "Resize" /\ last.res = "ok" /\ last.path = "grow"
    /\ Size("a") = 4 /\ Elems("a")[1] # Elems("a")[2] /\ Elems("a")[2] # Default
    /\ Elems("a")[3] = Default /\ Elems("a")[4] = Default

\* C12: a copy assignment v = o (v and o distinct) that returns leaves v with
\* the size and the elements of o and leaves o as it was; v keeps its
\* capacity when o's size fits in it, and gets capacity o's size otherwise.
C12_CopyAssignYields ==
    [][(Returned /\ last'.op = "CopyAssign") =>
        \A v \in Vecs, o \in Vecs, f \in FailPoints(PairCap), oom \in BOOLEAN :
          (v # o /\ last'.self = v /\ CopyAssign(v, o, f, oom))
              => /\ Elems(v)' = Elems(o) /\ Size(v)' = Size(o)
                 /\ Elems(o)' = Elems(o) /\ Size(o)' = Size(o) /\ Capacity(o)' = Capacity(o)
                 /\ Size(o) <= Capacity(v) => Capacity(v)' = Capacity(v)
                 /\ Size(o) > Capacity(v) => Capacity(v)' = Size(o)]_vars

C12_Witness ==
    /\ last.op = "CopyAssign" /\ last.res = "ok" /\ last.path = "shrink"
    /\ \E v \in Vecs, o \in Vecs :
          /\ last.self = v /\ v # o /\ vec[v].alive /\ vec[o].alive
          /\ Size(v) = 1 /\ Capacity(v) = 2 /\ Elems(v) = Elems(o) /\ Elems(v)[1] # Default
          /\ vec[v].data.buffer # vec[o].data.buffer

\* The calls that allocate inside an existing array.
GrowingOps == {"Reserve", "Resize", "EmplaceBack", "Emplace", "CopyAssign"}

\* Nothing the caller can see of any array, nor the heap, has changed.
NothingChanged ==
    /\ heap' = heap
    /\ \A v \in Vecs : /\ vec'[v].alive = vec[v].alive
                       /\ Elems(v)' = Elems(v) /\ Size(v)' = Size(v) /\ Capacity(v)' = Capacity(v)

\* C13: when operator new fails inside Reserve, Resize, EmplaceBack, Emplace
\* or copy assignment, the call throws and every array's size, capacity and
\* elements are as before the call; a call whose allocation is made to fail
\* is such a call.
C13_AllocationFailure ==
    [][(last'.op \in GrowingOps) =>
        /\ last'.path = "oom" => (Threw /\ NothingChanged)
        /\ last'.path = "oom"
              \/ \A v \in {last'.self}, n \in 0..PairCap, x \in PairValues :
                    ~ \/ last'.op = "Reserve" /\ Reserve(v, n, 0, TRUE)
                      \/ last'.op = "Resize" /\ Resize(v, n, 0, TRUE)
                      \/ last'.op = "EmplaceBack" /\ EmplaceBack(v, x, 0, TRUE, PairCap)
                      \/ last'.op = "Emplace" /\ Emplace(v, n, x, 0, TRUE, PairCap)
                      \/ last'.op = "CopyAssign" /\ \E o \in Vecs : CopyAssign(v, o, 0, TRUE)]_vars

C13_Witness ==
    /\ last.op = "CopyAssign" /\ last.res = "throw" /\ last.path = "oom"
    /\ \E v \in Vecs, o \in Vecs :
          /\ last.self = v /\ v # o /\ vec[v].alive /\ vec[o].alive
          /\ Size(v) = 1 /\ Capacity(v) = 1 /\ Size(o) = 2 /\ Elems(v)[1] # Elems(o)[1]

\* C14: in every reachable state no two arrays' stores own the same block, a
\* store owns a block of exactly its capacity or, with capacity 0, none (so
\* a moved-from store, which has capacity 0, owns none), every allocated
\* block is owned by a store (none is leaked, and none is left once every
\* array is destroyed), and no call has released a block twice.
C14_SingularOwnership ==
    /\ \A v \in Vecs, o \in Vecs :
          (v # o /\ vec[v].alive /\ vec[o].alive /\ vec[v].data.buffer # Null)
              => vec[v].data.buffer # vec[o].data.buffer
    /\ \A v \in Vecs :
          /\ (vec[v].data.buffer = Null) <=> (Capacity(v) = 0)
          /\ vec[v].data.buffer # Null
                => /\ vec[v].alive /\ Allocated(heap, vec[v].data.buffer)
                   /\ Len(heap[vec[v].data.buffer]) = Capacity(v)
    /\ \A b \in Blocks : heap[b] # <<>> => \E v \in Vecs : vec[v].alive /\ vec[v].data.buffer = b
    /\ "free" \notin last.why
    /\ last.op = "MoveCtor"
          => \A o \in Vecs : o # last.self => vec[o].data = EmptyRaw

C14_Witness ==
    /\ last.op = "CopyAssign" /\ last.res = "ok" /\ last.path = "realloc"
    /\ vec["a"].alive /\ vec["b"].alive
    /\ Size("a") = 2 /\ Size("b") = 2
    /\ vec["a"].data.buffer # Null /\ vec["b"].data.buffer # Null
    /\ vec["a"].data.buffer # vec["b"].data.buffer
    /\ \E v \in Vecs : last.self = v /\ Capacity(v) = 2
    /\ Cardinality({b \in Blocks : heap[b] # <<>>}) = 2

\* C15: when the relocation by copy fails in a growing EmplaceBack, every
\* element built in the new store, the appended one included, is destroyed
\* (none is lost with the block), no destructor runs on a slot that holds no
\* element, the new block is released, and the failure reaches the caller.
C15_EmplaceBackTeardown ==
    [][(last'.op = "EmplaceBack" /\ last'.path = "reloc" /\ ~RelocateByMove)
          => /\ last'.leaked = 0
             /\ "destroy" \notin last'.why
             /\ heap' = heap
             /\ Threw]_vars

\* C16: when a copy of the prefix or of the suffix fails in a growing Emplace
\* under the copy policy, everything built in the new store is destroyed
\* (nothing is lost with the block, no destructor runs twice), the new block
\* is released and the failure reaches the caller with the old store as it
\* was; the stores are swapped only by a call that returns.
C16_EmplaceRollback ==
    [][(last'.op = "Emplace" /\ last'.path = "reloc" /\ ~RelocateByMove)
          => /\ last'.leaked = 0
             /\ "destroy" \notin last'.why
             /\ heap' = heap /\ vec' = vec
             /\ Threw]_vars

\* The observed call did not return: it threw, or the process ended.
Failed == last'.res \in {"throw", "crash"}

\* C17: when an element operation fails in an Emplace without growth before
\* the end, or in an Erase, the array keeps its size and capacity, exactly
\* its slots [0, size) hold live elements, no element is lost and no
\* destructor has run on a slot without an element.
C17_BasicGuarantee ==
    [][(Failed /\ last'.op \in {"Emplace", "Erase"}) =>
        \A pos \in 0..MaxCap, x \in Values, f \in FailPoints(MaxCap) :
          (\/ ~Full(vec["a"]) /\ pos < Size("a") /\ Emplace("a", pos, x, f, FALSE, MaxCap)
           \/ Erase("a", pos, f))
              => /\ Size("a")' = Size("a") /\ Capacity("a")' = Capacity("a")
                 /\ LiveExactly("a")'
                 /\ last'.leaked = 0
                 /\ "destroy" \notin last'.why]_vars

\* C18: when the constructor of the new element throws in EmplaceBack (with
\* or without spare capacity) or in a growing Emplace, the call throws and
\* the array and the heap are as before: size, capacity and elements are
\* unchanged and no old element was moved from, destroyed or lost.
C18_NewElementFailure ==
    [][(last'.op \in {"EmplaceBack", "Emplace"} /\ last'.res # "none" /\ CtorThrows) =>
        \A pos \in 0..MaxCap, x \in Values :
          (\/ EmplaceBack("a", x, 1, FALSE, MaxCap)
           \/ Full(vec["a"]) /\ Emplace("a", pos, x, 1, FALSE, MaxCap))
              => /\ Threw /\ last'.path = "ctor"
                 /\ vec' = vec /\ heap' = heap
                 /\ last'.leaked = 0 /\ last'.why = {}]_vars

C18_Witness ==
    /\ last.op = "EmplaceBack" /\ last.res = "throw" /\ last.path = "ctor"
    /\ Size("a") = 2 /\ Capacity("a") = 2
    /\ Elems("a")[1] # Default /\ Elems("a")[2] # Elems("a")[1]

\* C19: Vector(n) and Vector(const Vector&) are all-or-nothing.  A call that
\* returns leaves an array of size n (of the source's size) with capacity at
\* least its size, holding n default values (the source's elements); a call
\* in which an element's construction fails throws and leaves no array, no
\* block and no live element behind: the elements already built are
\* destroyed, each once, and the heap is as before the call.
C19_CtorAllOrNothing ==
    [][(last'.op \in {"SizedCtor", "CopyCtor"}) =>
        \A v \in Vecs, o \in Vecs, n \in 0..PairCap, f \in FailPoints(PairCap), oom \in BOOLEAN :
          /\ (last'.self = v /\ SizedCtor(v, n, f, oom))
                => /\ Returned <=> (f = 0 /\ last'.path # "oom")
                   /\ Returned => /\ vec'[v].alive /\ Size(v)' = n /\ Capacity(v)' >= n
                                  /\ Elems(v)' = Defaults(n)
          /\ (last'.self = v /\ CopyCtor(v, o, f, oom))
                => /\ Returned <=> (f = 0 /\ last'.path # "oom")
                   /\ Returned => /\ vec'[v].alive /\ Size(v)' = Size(o) /\ Capacity(v)' >= Size(o)
                                  /\ Elems(v)' = Elems(o)
          /\ (/\ last'.self = v /\ ~Returned
              /\ SizedCtor(v, n, f, oom) \/ CopyCtor(v, o, f, oom))
                => /\ Threw /\ vec' = vec /\ heap' = heap
                   /\ last'.leaked = 0 /\ last'.why = {}]_vars

C19_Witness ==
    /\ last.op = "CopyCtor" /\ last.res = "throw" /\ last.path = "ctor"
    /\ \E v \in Vecs, o \in Vecs :
          /\ last.self = v /\ ~vec[v].alive /\ vec[o].alive
          /\ Size(o) = 2 /\ Elems(o)[1] # Elems(o)[2]
    /\ Cardinality({b \in Blocks : heap[b] # <<>>}) = 1

\* C20: with an element type whose operations never fail, in any history of
\* calls that return, the destruction of the arrays included, no call loses a
\* live element (by releasing its block or by constructing over it) and no
\* call runs a destructor where no element lives; once every array is
\* destroyed no block, hence no element, is left.
C20_LifetimeBalance ==
    ~T.throws =>
        /\ last.res = "ok" => (last.leaked = 0 /\ "destroy" \notin last.why)
        /\ (\A v \in Vecs : ~vec[v].alive) => \A b \in Blocks : heap[b] = <<>>

====
